---- MODULE Spec2Model ----
(***************************************************************************)
(* A model of the 4-bit CPU simulator of src/Cpu4bit.cpp: class CPU4Bit    *)
(* (registers, program counter, zero flag, 16 cells of RAM, running), its  *)
(* public operations reset, loadProgram, step and run, and the caller that *)
(* invokes them.                                                           *)
(***************************************************************************)
EXTENDS Integers, Sequences, FiniteSets, TLC

VARIABLES
    regA, regB, regC, regD,  \* uint8_t registers
    PC,                      \* uint8_t program counter
    zeroFlag,                \* bool
    RAM,                     \* uint8_t RAM[16], a function on 0..15
    running,                 \* bool
    trace,                   \* what the latest call of step() wrote to cout:
                             \* <<>> or one record
    call,                    \* the public method the caller invoked last
    inRun,                   \* the caller is inside the loop of run()
    steps, maxSteps,         \* run()'s local counter and its parameter
    maxStepsReached,         \* run() printed "Max steps reached!"
    outputs,                 \* the values OUT wrote to cout in the latest run()
    loads                    \* calls of loadProgram since the last reset

regs == <<regA, regB, regC, regD>>
cpu == <<regA, regB, regC, regD, PC, zeroFlag, RAM, running>>
runVars == <<inRun, steps, maxSteps, maxStepsReached, outputs>>
vars == <<regA, regB, regC, regD, PC, zeroFlag, RAM, running, trace, call,
          inRun, steps, maxSteps, maxStepsReached, outputs, loads>>

(***************************************************************************)
(* Constants of the class.                                                 *)
(***************************************************************************)
MASK_4BIT == 15
RAM_SIZE == 16
UINT8 == 256

NOP == 0
LDA == 1
LDB == 2
STA == 3
STB == 4
ADD == 5
SUB == 6
JMP == 7
JZ == 8
MOV == 9
LDM == 10
OUT == 11
INC == 12
DEC == 13
ALU == 14
HLT == 15

AND_OP == 0
OR_OP == 1
XOR_OP == 2
NOT_OP == 3
SHL_OP == 4
SHR_OP == 5
ROL_OP == 6
ROR_OP == 7

Addr == 0 .. (RAM_SIZE - 1)
Byte == 0 .. (UINT8 - 1)
Nibble == 0 .. MASK_4BIT

(***************************************************************************)
(* C++ integer operators on the values the code applies them to.  The      *)
(* operands of & | ^ are promoted to int and are never negative here; ~x   *)
(* of an int is -x-1; converting an int to uint8_t reduces it modulo 256.  *)
(***************************************************************************)
RECURSIVE BitAnd(_, _)
BitAnd(x, y) ==
    IF x = 0 \/ y = 0 THEN 0
    ELSE (x % 2) * (y % 2) + 2 * BitAnd(x \div 2, y \div 2)

RECURSIVE BitOr(_, _)
BitOr(x, y) ==
    IF x = 0 THEN y
    ELSE IF y = 0 THEN x
    ELSE (IF x % 2 = 1 \/ y % 2 = 1 THEN 1 ELSE 0) + 2 * BitOr(x \div 2, y \div 2)

RECURSIVE BitXor(_, _)
BitXor(x, y) ==
    IF x = 0 THEN y
    ELSE IF y = 0 THEN x
    ELSE ((x + y) % 2) + 2 * BitXor(x \div 2, y \div 2)

BitNot(x) == (-x) - 1

ToUint8(value) == value % UINT8

\* uint8_t mask4bit(uint8_t value) { return value & MASK_4BIT; }
mask4bit(value) == BitAnd(ToUint8(value), MASK_4BIT)

\* uint8_t& getRegister(uint8_t regNum), read through the reference
getRegister(regNum) ==
    CASE BitAnd(regNum, 3) = 0 -> regA
      [] BitAnd(regNum, 3) = 1 -> regB
      [] BitAnd(regNum, 3) = 2 -> regC
      [] BitAnd(regNum, 3) = 3 -> regD

\* getRegister(regNum) = value: a write through the reference
setRegister(regNum, value) ==
    CASE BitAnd(regNum, 3) = 0 -> regA' = value /\ UNCHANGED <<regB, regC, regD>>
      [] BitAnd(regNum, 3) = 1 -> regB' = value /\ UNCHANGED <<regA, regC, regD>>
      [] BitAnd(regNum, 3) = 2 -> regC' = value /\ UNCHANGED <<regA, regB, regD>>
      [] BitAnd(regNum, 3) = 3 -> regD' = value /\ UNCHANGED <<regA, regB, regC>>

\* getRegister(regNum) read again after a write of the same step
getRegisterAfter(regNum) ==
    CASE BitAnd(regNum, 3) = 0 -> regA'
      [] BitAnd(regNum, 3) = 1 -> regB'
      [] BitAnd(regNum, 3) = 2 -> regC'
      [] BitAnd(regNum, 3) = 3 -> regD'

getRegisterName(regNum) ==
    CASE BitAnd(regNum, 3) = 0 -> "A"
      [] BitAnd(regNum, 3) = 1 -> "B"
      [] BitAnd(regNum, 3) = 2 -> "C"
      [] BitAnd(regNum, 3) = 3 -> "D"

(***************************************************************************)
(* Decoding of the fetched byte (step, lines 121-123).                     *)
(***************************************************************************)
Instruction == RAM[PC]
OpcodeOf(instruction) == BitAnd(instruction \div 16, MASK_4BIT)
OperandOf(instruction) == BitAnd(instruction, MASK_4BIT)

\* The line step() prints: PC before the step, the byte, its two nibbles,
\* the mnemonic of the case taken and, for OUT, the value printed.
Emit(text, out) ==
    trace' = << [pc |-> PC, instruction |-> Instruction,
                 opcode |-> OpcodeOf(Instruction),
                 operand |-> OperandOf(Instruction),
                 text |-> text, out |-> out] >>

\* The memory indices step() uses in the current state: the fetch at PC and
\* the cell STA and STB write and LDM reads.
StepIndices ==
    {PC} \cup (IF OpcodeOf(Instruction) \in {STA, STB, LDM}
                 THEN {OperandOf(Instruction)} ELSE {})

(***************************************************************************)
(* The cases of step()'s switch.  Each is the whole effect of one opcode   *)
(* on the CPU, PC included: step() has already set PC to mask4bit(PC + 1)  *)
(* when the switch runs, and JMP and JZ overwrite it.                      *)
(***************************************************************************)
\* NextPC without the mask
NextPCUnmasked == PC + 1

NextPC == mask4bit(PC + 1)

caseNOP ==
    /\ PC' = NextPC
    /\ UNCHANGED <<regA, regB, regC, regD, zeroFlag, RAM, running>>
    /\ Emit("NOP", <<>>)

\* caseLDA also updating the zero flag from the loaded value
caseLDASetsFlag(operand) ==
    /\ PC' = NextPC
    /\ regA' = mask4bit(operand)
    /\ zeroFlag' = (regA' = 0)
    /\ UNCHANGED <<regB, regC, regD, RAM, running>>
    /\ Emit("LDA", <<>>)

caseLDA(operand) ==
    /\ PC' = NextPC
    /\ regA' = mask4bit(operand)
    /\ UNCHANGED <<regB, regC, regD, zeroFlag, RAM, running>>
    /\ Emit("LDA", <<>>)

caseLDB(operand) ==
    /\ PC' = NextPC
    /\ regB' = mask4bit(operand)
    /\ UNCHANGED <<regA, regC, regD, zeroFlag, RAM, running>>
    /\ Emit("LDB", <<>>)

\* STA that stores B
caseSTAStoresB(operand) ==
    /\ PC' = NextPC
    /\ RAM' = [RAM EXCEPT ![operand] = regB]
    /\ UNCHANGED <<regA, regB, regC, regD, zeroFlag, running>>
    /\ Emit("STA", <<>>)

\* STA that stores only the low nibble of A
caseSTAMasked(operand) ==
    /\ PC' = NextPC
    /\ RAM' = [RAM EXCEPT ![operand] = mask4bit(regA)]
    /\ UNCHANGED <<regA, regB, regC, regD, zeroFlag, running>>
    /\ Emit("STA", <<>>)

caseSTA(operand) ==
    /\ PC' = NextPC
    /\ RAM' = [RAM EXCEPT ![operand] = regA]
    /\ UNCHANGED <<regA, regB, regC, regD, zeroFlag, running>>
    /\ Emit("STA", <<>>)

caseSTB(operand) ==
    /\ PC' = NextPC
    /\ RAM' = [RAM EXCEPT ![operand] = regB]
    /\ UNCHANGED <<regA, regB, regC, regD, zeroFlag, running>>
    /\ Emit("STB", <<>>)

caseADD ==
    /\ PC' = NextPC
    /\ regA' = mask4bit(regA + regB)
    /\ zeroFlag' = (regA' = 0)
    /\ UNCHANGED <<regB, regC, regD, RAM, running>>
    /\ Emit("ADD", <<>>)

\* caseSUB with the operands swapped
caseSUBSwapped ==
    /\ PC' = NextPC
    /\ regA' = mask4bit(regB - regA)
    /\ zeroFlag' = (regA' = 0)
    /\ UNCHANGED <<regB, regC, regD, RAM, running>>
    /\ Emit("SUB", <<>>)

caseSUB ==
    /\ PC' = NextPC
    /\ regA' = mask4bit(regA - regB)
    /\ zeroFlag' = (regA' = 0)
    /\ UNCHANGED <<regB, regC, regD, RAM, running>>
    /\ Emit("SUB", <<>>)

caseJMP(operand) ==
    /\ PC' = mask4bit(operand)
    /\ UNCHANGED <<regA, regB, regC, regD, zeroFlag, RAM, running>>
    /\ Emit("JMP", <<>>)

\* caseJZ jumping when the flag is clear
caseJZInverted(operand) ==
    /\ IF ~zeroFlag
         THEN PC' = mask4bit(operand) /\ Emit("JZ (taken)", <<>>)
         ELSE PC' = NextPC /\ Emit("JZ (not taken)", <<>>)
    /\ UNCHANGED <<regA, regB, regC, regD, zeroFlag, RAM, running>>

caseJZ(operand) ==
    /\ IF zeroFlag
         THEN PC' = mask4bit(operand) /\ Emit("JZ (taken)", <<>>)
         ELSE PC' = NextPC /\ Emit("JZ (not taken)", <<>>)
    /\ UNCHANGED <<regA, regB, regC, regD, zeroFlag, RAM, running>>

\* MOV with the two register fields of the operand exchanged
caseMOVSwapped(operand) ==
    LET src == BitAnd(operand, 3)
        dst == BitAnd(operand \div 4, 3)
        value == getRegister(src)
    IN  /\ PC' = NextPC
        /\ setRegister(dst, value)
        /\ UNCHANGED <<zeroFlag, RAM, running>>
        /\ Emit("MOV", <<>>)

caseMOV(operand) ==
    LET src == BitAnd(operand \div 4, 3)
        dst == BitAnd(operand, 3)
        value == getRegister(src)
    IN  /\ PC' = NextPC
        /\ setRegister(dst, value)
        /\ UNCHANGED <<zeroFlag, RAM, running>>
        /\ Emit("MOV", <<>>)

\* LDM that masks the loaded byte to 4 bits, as LDA does
caseLDMMasked(operand) ==
    /\ PC' = NextPC
    /\ regA' = mask4bit(RAM[operand])
    /\ UNCHANGED <<regB, regC, regD, zeroFlag, RAM, running>>
    /\ Emit("LDM", <<>>)

caseLDM(operand) ==
    /\ PC' = NextPC
    /\ regA' = RAM[operand]
    /\ UNCHANGED <<regB, regC, regD, zeroFlag, RAM, running>>
    /\ Emit("LDM", <<>>)

caseOUT(operand) ==
    /\ PC' = NextPC
    /\ UNCHANGED <<regA, regB, regC, regD, zeroFlag, RAM, running>>
    /\ Emit("OUT", <<getRegister(BitAnd(operand, 3))>>)

caseINC(operand) ==
    /\ PC' = NextPC
    /\ setRegister(BitAnd(operand, 3), mask4bit(getRegister(BitAnd(operand, 3)) + 1))
    /\ zeroFlag' = (getRegisterAfter(BitAnd(operand, 3)) = 0)
    /\ UNCHANGED <<RAM, running>>
    /\ Emit("INC", <<>>)

\* caseDEC saturating at 0 instead of wrapping to 15
caseDECSaturating(operand) ==
    /\ PC' = NextPC
    /\ setRegister(BitAnd(operand, 3),
                   IF getRegister(BitAnd(operand, 3)) = 0 THEN 0
                   ELSE mask4bit(getRegister(BitAnd(operand, 3)) - 1))
    /\ zeroFlag' = (getRegisterAfter(BitAnd(operand, 3)) = 0)
    /\ UNCHANGED <<RAM, running>>
    /\ Emit("DEC", <<>>)

caseDEC(operand) ==
    /\ PC' = NextPC
    /\ setRegister(BitAnd(operand, 3), mask4bit(getRegister(BitAnd(operand, 3)) - 1))
    /\ zeroFlag' = (getRegisterAfter(BitAnd(operand, 3)) = 0)
    /\ UNCHANGED <<RAM, running>>
    /\ Emit("DEC", <<>>)

\* The value a defined ALU sub-opcode computes for A (lines 221-281).
\* aluResult whose ROL drops bit 3 instead of wrapping it into bit 0
aluResultRolNoWrap(subop) ==
    CASE subop = AND_OP -> mask4bit(BitAnd(regA, regB))
      [] subop = OR_OP  -> mask4bit(BitOr(regA, regB))
      [] subop = XOR_OP -> mask4bit(BitXor(regA, regB))
      [] subop = NOT_OP -> mask4bit(BitNot(regA))
      [] subop = SHL_OP -> mask4bit(regA * 2)
      [] subop = SHR_OP -> mask4bit(regA \div 2)
      [] subop = ROL_OP -> mask4bit(regA * 2)
      [] subop = ROR_OP -> LET lsb == ToUint8(BitAnd(regA, 1) * 8)
                           IN  mask4bit(BitOr(regA \div 2, lsb))

\* aluResult whose ROR drops bit 0 instead of wrapping it into bit 3
aluResultRorNoWrap(subop) ==
    CASE subop = AND_OP -> mask4bit(BitAnd(regA, regB))
      [] subop = OR_OP  -> mask4bit(BitOr(regA, regB))
      [] subop = XOR_OP -> mask4bit(BitXor(regA, regB))
      [] subop = NOT_OP -> mask4bit(BitNot(regA))
      [] subop = SHL_OP -> mask4bit(regA * 2)
      [] subop = SHR_OP -> mask4bit(regA \div 2)
      [] subop = ROL_OP -> LET msb == BitAnd(regA, 8) \div 8
                           IN  mask4bit(BitOr(regA * 2, msb))
      [] subop = ROR_OP -> mask4bit(regA \div 2)

\* aluResult whose SHL keeps the bit shifted out of position 3 (no mask)
aluResultShlUnmasked(subop) ==
    CASE subop = AND_OP -> mask4bit(BitAnd(regA, regB))
      [] subop = OR_OP  -> mask4bit(BitOr(regA, regB))
      [] subop = XOR_OP -> mask4bit(BitXor(regA, regB))
      [] subop = NOT_OP -> mask4bit(BitNot(regA))
      [] subop = SHL_OP -> ToUint8(regA * 2)
      [] subop = SHR_OP -> mask4bit(regA \div 2)
      [] subop = ROL_OP -> LET msb == BitAnd(regA, 8) \div 8
                           IN  mask4bit(BitOr(regA * 2, msb))
      [] subop = ROR_OP -> LET lsb == ToUint8(BitAnd(regA, 1) * 8)
                           IN  mask4bit(BitOr(regA \div 2, lsb))

aluResult(subop) ==
    CASE subop = AND_OP -> mask4bit(BitAnd(regA, regB))
      [] subop = OR_OP  -> mask4bit(BitOr(regA, regB))
      [] subop = XOR_OP -> mask4bit(BitXor(regA, regB))
      [] subop = NOT_OP -> mask4bit(BitNot(regA))
      [] subop = SHL_OP -> mask4bit(regA * 2)
      [] subop = SHR_OP -> mask4bit(regA \div 2)
      [] subop = ROL_OP -> LET msb == BitAnd(regA, 8) \div 8
                           IN  mask4bit(BitOr(regA * 2, msb))
      [] subop = ROR_OP -> LET lsb == ToUint8(BitAnd(regA, 1) * 8)
                           IN  mask4bit(BitOr(regA \div 2, lsb))

aluName(subop) ==
    CASE subop = AND_OP -> "AND"
      [] subop = OR_OP  -> "OR"
      [] subop = XOR_OP -> "XOR"
      [] subop = NOT_OP -> "NOT"
      [] subop = SHL_OP -> "SHL"
      [] subop = SHR_OP -> "SHR"
      [] subop = ROL_OP -> "ROL"
      [] subop = ROR_OP -> "ROR"

\* caseALU whose default case recomputes the zero flag from A
caseALUDefaultSetsFlag(operand) ==
    LET subop == BitAnd(operand, 15)
    IN  /\ PC' = NextPC
        /\ IF subop \in AND_OP .. ROR_OP
             THEN /\ regA' = aluResult(subop)
                  /\ zeroFlag' = (regA' = 0)
                  /\ Emit(aluName(subop), <<>>)
             ELSE /\ UNCHANGED regA
                  /\ zeroFlag' = (regA = 0)
                  /\ Emit("UNKNOWN ALU OP", <<>>)
        /\ UNCHANGED <<regB, regC, regD, RAM, running>>

caseALU(operand) ==
    LET subop == BitAnd(operand, 15)
    IN  /\ PC' = NextPC
        /\ IF subop \in AND_OP .. ROR_OP
             THEN /\ regA' = aluResult(subop)
                  /\ zeroFlag' = (regA' = 0)
                  /\ Emit(aluName(subop), <<>>)
             ELSE /\ UNCHANGED <<regA, zeroFlag>>
                  /\ Emit("UNKNOWN ALU OP", <<>>)
        /\ UNCHANGED <<regB, regC, regD, RAM, running>>

\* caseHLT halting only for the byte 0xF0
caseHLTExactByte ==
    /\ PC' = NextPC
    /\ running' = (OperandOf(Instruction) # 0)
    /\ UNCHANGED <<regA, regB, regC, regD, zeroFlag, RAM>>
    /\ Emit("HLT", <<>>)

caseHLT ==
    /\ PC' = NextPC
    /\ running' = FALSE
    /\ UNCHANGED <<regA, regB, regC, regD, zeroFlag, RAM>>
    /\ Emit("HLT", <<>>)

\* switch(opcode): the 16 cases; the default is unreachable for a nibble.
dispatch(opcode, operand) ==
    CASE opcode = NOP -> caseNOP
      [] opcode = LDA -> caseLDA(operand)
      [] opcode = LDB -> caseLDB(operand)
      [] opcode = STA -> caseSTA(operand)
      [] opcode = STB -> caseSTB(operand)
      [] opcode = ADD -> caseADD
      [] opcode = SUB -> caseSUB
      [] opcode = JMP -> caseJMP(operand)
      [] opcode = JZ  -> caseJZ(operand)
      [] opcode = MOV -> caseMOV(operand)
      [] opcode = LDM -> caseLDM(operand)
      [] opcode = OUT -> caseOUT(operand)
      [] opcode = INC -> caseINC(operand)
      [] opcode = DEC -> caseDEC(operand)
      [] opcode = ALU -> caseALU(operand)
      [] opcode = HLT -> caseHLT
      [] OTHER -> caseNOP

(***************************************************************************)
(* The public operations of CPU4Bit, as they act on the CPU and on cout.   *)
(***************************************************************************)
\* reset that leaves the running flag as it was
resetKeepsRunning ==
    /\ regA' = 0
    /\ regB' = 0
    /\ regC' = 0
    /\ regD' = 0
    /\ PC' = 0
    /\ zeroFlag' = FALSE
    /\ running' = running
    /\ RAM' = [i \in Addr |-> 0]

reset ==
    /\ regA' = 0
    /\ regB' = 0
    /\ regC' = 0
    /\ regD' = 0
    /\ PC' = 0
    /\ zeroFlag' = FALSE
    /\ running' = TRUE
    /\ RAM' = [i \in Addr |-> 0]

\* loadProgram that clears the cells after the program
loadProgramClearsTail(program) ==
    /\ RAM' = [i \in Addr |-> IF i < Len(program) THEN program[i + 1] ELSE 0]
    /\ UNCHANGED <<regA, regB, regC, regD, PC, zeroFlag, running>>

loadProgram(program) ==
    /\ RAM' = [i \in Addr |-> IF i < Len(program) THEN program[i + 1] ELSE RAM[i]]
    /\ UNCHANGED <<regA, regB, regC, regD, PC, zeroFlag, running>>

\* step without the test of running
stepNoGuard == dispatch(OpcodeOf(Instruction), OperandOf(Instruction))

step ==
    IF ~running
      THEN UNCHANGED cpu /\ trace' = <<>>
      ELSE dispatch(OpcodeOf(Instruction), OperandOf(Instruction))

\* void run(int maxSteps): the loop test, the body and the report after it
\* the loop test off by one
runConditionOffByOne == running /\ steps <= maxSteps

runCondition == running /\ steps < maxSteps

runBody ==
    /\ step
    /\ steps' = steps + 1

runReport == maxStepsReached' = (steps >= maxSteps)

(***************************************************************************)
(* The programs of main() (examples 1-8).                                  *)
(***************************************************************************)
program1 == <<21, 35, 80, 176, 240>>
program2 == <<21, 176, 208, 129, 113, 240>>
program3 == <<26, 63, 16, 176, 175, 176, 240>>
program4 == <<28, 42, 176, 177, 224, 176, 28, 225, 176, 28, 226, 176, 240>>
program5 == <<21, 176, 227, 176, 227, 176, 240>>
program6 == <<19, 176, 228, 176, 228, 176, 229, 176, 229, 176, 240>>
program7 == <<25, 176, 230, 176, 230, 176, 231, 176, 231, 176, 240>>
program8 == <<31, 35, 224, 176, 240>>

MainPrograms ==
    {program1, program2, program3, program4, program5, program6, program7, program8}

(***************************************************************************)
(* Further inputs of loadProgram.  Enc(opcode, operand) is the byte the    *)
(* decoder splits back into the two nibbles.                               *)
(***************************************************************************)
Enc(opcode, operand) == 16 * opcode + operand

\* DEC and INC of each register from the reset state, then HLT
programRegs ==
    <<Enc(DEC, 0), Enc(DEC, 1), Enc(DEC, 2), Enc(DEC, 3),
      Enc(INC, 0), Enc(INC, 1), Enc(INC, 2), Enc(INC, 3), Enc(HLT, 0)>>

\* LDM of a cell that holds an instruction byte, MOV of the loaded value,
\* STB, SUB, an undefined ALU sub-opcode, a taken JZ to the last cell
programMem ==
    <<Enc(LDM, 0), Enc(MOV, 2), Enc(LDB, 7), Enc(STB, 14), Enc(SUB, 0),
      Enc(ALU, 9), Enc(LDA, 0), Enc(ALU, NOT_OP), Enc(INC, 0), Enc(JZ, 15),
      Enc(HLT, 5), Enc(NOP, 0), Enc(NOP, 0), Enc(NOP, 0), Enc(NOP, 0),
      Enc(MOV, 7), Enc(HLT, 0)>>

\* A program that overwrites its own third instruction: LDM fetches the byte
\* of the HLT in cell 4 and STA stores it over the NOP in cell 2
programSelf ==
    <<Enc(LDM, 4), Enc(STA, 2), Enc(NOP, 0), Enc(JMP, 0), Enc(HLT, 0)>>

TestPrograms == {programRegs, programMem, programSelf}

Programs == MainPrograms \cup TestPrograms

\* One instruction followed by JMP 0: loaded one after the other, these
\* feed the CPU an arbitrary stream of the instructions of StreamBytes.
StreamBytes ==
    {Enc(INC, 0), Enc(INC, 1), Enc(ADD, 0), Enc(SUB, 0), Enc(HLT, 0), Enc(HLT, 9)}
      \cup {Enc(ALU, n) : n \in Nibble}

StreamPrograms == {<<b, Enc(JMP, 0)>> : b \in StreamBytes}

(***************************************************************************)
(* The caller: one action per call of a public method.  run() is entered   *)
(* by RunCall, iterates by RunLoop and returns by RunReturn; no other call *)
(* is made while it is in its loop.                                        *)
(***************************************************************************)
Init ==
    /\ regA = 0 /\ regB = 0 /\ regC = 0 /\ regD = 0
    /\ PC = 0
    /\ zeroFlag = FALSE
    /\ running = TRUE
    /\ RAM = [i \in Addr |-> 0]
    /\ trace = <<>>
    /\ call = "CPU4Bit"
    /\ inRun = FALSE
    /\ steps = 0
    /\ maxSteps = 0
    /\ maxStepsReached = FALSE
    /\ outputs = <<>>
    /\ loads = 0

Reset ==
    /\ ~inRun
    /\ reset
    /\ trace' = <<>>
    /\ call' = "reset"
    /\ loads' = 0
    /\ UNCHANGED runVars

LoadProgram(program) ==
    /\ ~inRun
    /\ loadProgram(program)
    /\ trace' = <<>>
    /\ call' = "loadProgram"
    /\ UNCHANGED runVars

Step ==
    /\ ~inRun
    /\ step
    /\ call' = "step"
    /\ UNCHANGED <<runVars, loads>>

RunCall(budget) ==
    /\ ~inRun
    /\ inRun' = TRUE
    /\ steps' = 0
    /\ maxSteps' = budget
    /\ maxStepsReached' = FALSE
    /\ outputs' = <<>>
    /\ trace' = <<>>
    /\ call' = "run"
    /\ UNCHANGED <<cpu, loads>>

RunLoop ==
    /\ inRun
    /\ runCondition
    /\ runBody
    /\ outputs' = outputs \o trace'[1].out
    /\ UNCHANGED <<inRun, maxSteps, maxStepsReached, call, loads>>

RunReturn ==
    /\ inRun
    /\ ~runCondition
    /\ runReport
    /\ inRun' = FALSE
    /\ UNCHANGED <<cpu, trace, call, steps, maxSteps, outputs, loads>>

\* Any sequence of reset, loadProgram and step on the programs of Programs,
\* with at most MaxLoads programs loaded on top of each other after a reset
MaxLoads == 2

Load ==
    /\ loads < MaxLoads
    /\ \E program \in Programs : LoadProgram(program)
    /\ loads' = loads + 1

Next == Reset \/ Load \/ Step

Spec == Init /\ [][Next]_vars

\* Any stream of the instructions of StreamBytes
LoadStream ==
    /\ \E program \in StreamPrograms : LoadProgram(program)
    /\ UNCHANGED loads

NextStream == Reset \/ LoadStream \/ Step

SpecStream == Init /\ [][NextStream]_vars

\* run(budget) on the programs of RunPrograms: one that halts at its fifth
\* step, one that loops for ever, one that halts at once.  The loop of run()
\* is sequential code: an iteration or the return that can be taken is taken.
MaxBudget == 6

RunPrograms == {program1, program2, <<Enc(HLT, 0)>>}

LoadRun ==
    /\ loads < MaxLoads
    /\ \E program \in RunPrograms : LoadProgram(program)
    /\ loads' = loads + 1

RunStart == \E budget \in 0 .. MaxBudget : RunCall(budget)

NextRun == Reset \/ LoadRun \/ RunStart \/ RunLoop \/ RunReturn

SpecRun == Init /\ [][NextRun]_vars /\ WF_vars(RunLoop) /\ WF_vars(RunReturn)

\* Programs that save A in cell 15, apply two ALU operations to A, reload A
\* from cell 15, increment it and start again: one pass for each A in 0..15.
programRolRor ==
    <<Enc(STA, 15), Enc(ALU, ROL_OP), Enc(ALU, ROR_OP),
      Enc(LDM, 15), Enc(INC, 0), Enc(JMP, 0)>>

programRorRol ==
    <<Enc(STA, 15), Enc(ALU, ROR_OP), Enc(ALU, ROL_OP),
      Enc(LDM, 15), Enc(INC, 0), Enc(JMP, 0)>>

programShlShr ==
    <<Enc(STA, 15), Enc(ALU, SHL_OP), Enc(ALU, SHR_OP),
      Enc(LDM, 15), Enc(INC, 0), Enc(JMP, 0)>>

RoundPrograms == {programRolRor, programRorRol, programShlShr}

LoadRound ==
    /\ loads < MaxLoads
    /\ \E program \in RoundPrograms : LoadProgram(program)
    /\ loads' = loads + 1

NextRound == Reset \/ LoadRound \/ Step

SpecRound == Init /\ [][NextRound]_vars

\* The first cells of RAM hold the bytes of program
Holds(program) == \A i \in 1 .. Len(program) : RAM[i - 1] = program[i]

\* Any stream of the 16 MOV instructions over registers that hold 0, 5 or 10,
\* with the zero flag set (AND of 5 and 10) or clear (AND of 10 and 10)
MovBytes ==
    {Enc(MOV, o) : o \in Nibble}
      \cup {Enc(LDA, 5), Enc(LDB, 10), Enc(ALU, AND_OP)}

MovPrograms == {<<b, Enc(JMP, 0)>> : b \in MovBytes}

LoadMov ==
    /\ \E program \in MovPrograms : LoadProgram(program)
    /\ UNCHANGED loads

NextMov == Reset \/ LoadMov \/ Step

SpecMov == Init /\ [][NextMov]_vars

\* Example 3 of main(): reset, loadProgram(program3), run, with any budget up
\* to MemBudget
MemBudget == 8

LoadMem ==
    /\ loads < MaxLoads
    /\ LoadProgram(program3)
    /\ loads' = loads + 1

RunMem == \E budget \in 0 .. MemBudget : RunCall(budget)

NextMem == Reset \/ LoadMem \/ RunMem \/ RunLoop \/ RunReturn

SpecMem == Init /\ [][NextMem]_vars /\ WF_vars(RunLoop) /\ WF_vars(RunReturn)

(***************************************************************************)
(* Properties.                                                             *)
(***************************************************************************)
\* What step() decodes in the current state
CurOpcode == OpcodeOf(Instruction)
CurOperand == OperandOf(Instruction)
\* A call of step() that executes an instruction
Executes == step /\ running

\* C1: in every reachable state each of the registers A, B, C and D holds a
\* value in 0..15.
C1_RegistersInNibble ==
    regA \in Nibble /\ regB \in Nibble /\ regC \in Nibble /\ regD \in Nibble

\* C2: in every reachable state PC is in 0..15 and every memory index the next
\* step uses (the fetch at PC, the cell of STA, STB and LDM) is in 0..15.
C2_AccessInBounds == PC \in Addr /\ StepIndices \subseteq Addr

\* a step fetched at cell 15 and PC wrapped to 0, after STB wrote cell 14
C2_Witness ==
    /\ trace # <<>>
    /\ trace[1].pc = 15
    /\ PC = 0
    /\ RAM[14] = 7

\* C3: a step executing ADD leaves A = (a+b) mod 16, a step executing SUB leaves
\* A = (a-b) mod 16, both set the zero flag to (A = 0) and leave B unchanged.
C3_AddSub ==
    [][ /\ (Executes /\ CurOpcode = ADD /\ regA \in Nibble /\ regB \in Nibble) =>
              /\ regA' = (regA + regB) % 16
              /\ zeroFlag' = (regA' = 0)
              /\ regB' = regB
        /\ (Executes /\ CurOpcode = SUB /\ regA \in Nibble /\ regB \in Nibble) =>
              /\ regA' = (regA - regB) % 16
              /\ zeroFlag' = (regA' = 0)
              /\ regB' = regB ]_vars

\* SUB has just computed 0 - 1 = 15
C3_Witness ==
    /\ trace # <<>>
    /\ trace[1].text = "SUB"
    /\ regA = 15
    /\ regB = 1
    /\ ~zeroFlag

\* C4 as stated: INC r at 15 leaves r = 0 and the zero flag true; DEC r at 0
\* leaves r = 15 and the zero flag true.
C4_Original ==
    [][ \A r \in 0 .. 3 :
          LET before == <<regA, regB, regC, regD>>[r + 1]
              after == <<regA', regB', regC', regD'>>[r + 1]
          IN  /\ (Executes /\ CurOpcode = INC /\ CurOperand % 4 = r /\ before = 15)
                    => (after = 0 /\ zeroFlag')
              /\ (Executes /\ CurOpcode = DEC /\ CurOperand % 4 = r /\ before = 0)
                    => (after = 15 /\ zeroFlag') ]_vars

\* C4, amended: INC r at 15 leaves r = 0 and the zero flag true; DEC r at 0
\* leaves r = 15 and the zero flag false (15 is not zero).
C4_IncDecWrap ==
    [][ \A r \in 0 .. 3 :
          LET before == <<regA, regB, regC, regD>>[r + 1]
              after == <<regA', regB', regC', regD'>>[r + 1]
          IN  /\ (Executes /\ CurOpcode = INC /\ CurOperand % 4 = r /\ before = 15)
                    => (after = 0 /\ zeroFlag')
              /\ (Executes /\ CurOpcode = DEC /\ CurOperand % 4 = r /\ before = 0)
                    => (after = 15 /\ ~zeroFlag') ]_vars

\* INC A has wrapped A from 15 to 0 after DEC took B, C and D from 0 to 15
C4_Witness ==
    /\ trace # <<>>
    /\ trace[1].instruction = Enc(INC, 0)
    /\ regA = 0
    /\ zeroFlag
    /\ regB = 15 /\ regC = 15 /\ regD = 15

\* C5: NOP, LDA, LDB, STA, STB, JMP, JZ, MOV, LDM, OUT and HLT leave the zero
\* flag as it was; the flag changes only in ADD, SUB, INC, DEC or ALU 0..7, and
\* is then true exactly when the register that step wrote is 0.
C5_ZeroFlagFrame ==
    [][ Executes =>
          LET written == <<regA', regB', regC', regD'>>[(CurOperand % 4) + 1]
          IN  /\ CurOpcode \in {NOP, LDA, LDB, STA, STB, JMP, JZ, MOV, LDM, OUT, HLT}
                    => zeroFlag' = zeroFlag
              /\ zeroFlag' # zeroFlag
                    => \/ CurOpcode \in {ADD, SUB, INC, DEC}
                       \/ CurOpcode = ALU /\ CurOperand \in 0 .. 7
              /\ (CurOpcode \in {ADD, SUB} \/ (CurOpcode = ALU /\ CurOperand \in 0 .. 7))
                    => zeroFlag' = (regA' = 0)
              /\ CurOpcode \in {INC, DEC} => zeroFlag' = (written = 0) ]_vars

\* MOV has written 7 to D and the flag set by an earlier INC is still true
C5_Witness ==
    /\ trace # <<>>
    /\ trace[1].text = "MOV"
    /\ regD = 7
    /\ zeroFlag

\* C6: ALU with sub-opcode 8..15 leaves A, the zero flag, B, C, D, memory and
\* running unchanged; the CPU stays running and PC advances to (PC+1) mod 16.
C6_UnknownAluNoOp ==
    [][ (Executes /\ CurOpcode = ALU /\ CurOperand \in 8 .. 15) =>
          /\ regA' = regA
          /\ zeroFlag' = zeroFlag
          /\ regB' = regB /\ regC' = regC /\ regD' = regD
          /\ RAM' = RAM
          /\ running'
          /\ PC' = (PC + 1) % 16 ]_vars

\* an undefined sub-opcode ran with A nonzero and the flag true: the flag
\* was not recomputed from A
C6_Witness ==
    /\ trace # <<>>
    /\ trace[1].text = "UNKNOWN ALU OP"
    /\ trace[1].operand = 15
    /\ regA = 3
    /\ zeroFlag
    /\ running

\* C7: once halted, step() leaves registers, PC, zero flag, memory and running
\* unchanged, so no sequence of step() calls makes running true again.
C7_HaltIsTerminal ==
    [][ (step /\ ~running) =>
          /\ UNCHANGED <<regA, regB, regC, regD, PC, zeroFlag, RAM>>
          /\ ~running' ]_vars

\* step() was called on the CPU that program1 halted
C7_Witness ==
    /\ ~running
    /\ call = "step"
    /\ trace = <<>>
    /\ regA = 8
    /\ PC = 5

\* C8: a step changes running from true to false if and only if the byte
\* fetched at PC has high nibble 0xF, whatever its low nibble.
C8_HaltOnlyOnHLT ==
    [][ Executes => (~running' <=> Instruction \div 16 = 15) ]_vars

\* the byte 0xF9 halted the CPU
C8_Witness ==
    /\ ~running
    /\ trace # <<>>
    /\ trace[1].instruction = 249

\* run() has returned
RunDone == call = "run" /\ ~inRun

\* C9: run(N) terminates and performs exactly min(N, k) steps, k the number of
\* the step that executes HLT: it returns with running true only after N
\* steps, with the budget reported, and with running false only right after a
\* step numbered at most N that executed HLT; each iteration is one step.
C9_RunTerminates ==
    /\ [](inRun => steps <= maxSteps)
    /\ [](RunDone /\ running => steps = maxSteps /\ maxStepsReached)
    /\ [](RunDone /\ ~running /\ steps > 0 =>
            steps <= maxSteps /\ trace # <<>> /\ trace[1].opcode = HLT)
    /\ [][inRun /\ steps' # steps => Executes /\ steps' = steps + 1]_vars
    /\ (inRun ~> RunDone)

\* run(6) of the looping program2 returned after 6 steps, still running
C9_Witness ==
    /\ RunDone
    /\ running
    /\ steps = 6
    /\ maxSteps = 6
    /\ maxStepsReached
    /\ RAM[4] = 113

\* C10: at the end of run(N) the budget-exhausted condition is reported if and
\* only if running is still true.
C10_ReportedIffRunning == RunDone => (maxStepsReached <=> running)

\* C11: after a step taken with PC = p, PC is the operand if the opcode is JMP,
\* or JZ with the zero flag true; in every other case PC is (p+1) mod 16.
C11_NextPC ==
    [][ Executes =>
          PC' = IF CurOpcode = JMP \/ (CurOpcode = JZ /\ zeroFlag)
                  THEN CurOperand
                  ELSE (PC + 1) % 16 ]_vars

\* JZ at cell 9 was taken to cell 15
C11_Witness ==
    /\ trace # <<>>
    /\ trace[1].text = "JZ (taken)"
    /\ trace[1].pc = 9
    /\ PC = 15
    /\ zeroFlag

\* C12: for a, b in 0..15 a step executing ALU sub-opcode 0..7 leaves A equal
\* to a AND b, a OR b, a XOR b, 15-a, (2a) mod 16, a div 2,
\* ((2a) mod 16) + (a div 8), (a div 2) + 8*(a mod 2) respectively; the result
\* is in 0..15, B is unchanged and the zero flag is set to (A = 0).
C12_AluResults ==
    [][ (Executes /\ CurOpcode = ALU /\ CurOperand \in 0 .. 7
           /\ regA \in Nibble /\ regB \in Nibble) =>
          LET a == regA
              b == regB
              bit(x, i) == (x \div (2 ^ i)) % 2
              and(i) == bit(a, i) * bit(b, i)
              or(i) == IF bit(a, i) + bit(b, i) > 0 THEN 1 ELSE 0
              xor(i) == (bit(a, i) + bit(b, i)) % 2
              expected ==
                  CASE CurOperand = 0 -> and(0) + 2 * and(1) + 4 * and(2) + 8 * and(3)
                    [] CurOperand = 1 -> or(0) + 2 * or(1) + 4 * or(2) + 8 * or(3)
                    [] CurOperand = 2 -> xor(0) + 2 * xor(1) + 4 * xor(2) + 8 * xor(3)
                    [] CurOperand = 3 -> 15 - a
                    [] CurOperand = 4 -> (2 * a) % 16
                    [] CurOperand = 5 -> a \div 2
                    [] CurOperand = 6 -> ((2 * a) % 16) + (a \div 8)
                    [] CurOperand = 7 -> (a \div 2) + 8 * (a % 2)
          IN  /\ regA' = expected
              /\ regA' \in Nibble
              /\ regB' = regB
              /\ zeroFlag' = (regA' = 0) ]_vars

\* ROL has turned 9 (1001) into 3 (0011) with B = 5
C12_Witness ==
    /\ trace # <<>>
    /\ trace[1].text = "ROL"
    /\ regA = 3
    /\ regB = 5
    /\ ~zeroFlag

\* The second ALU operation of the only program loaded since the reset has
\* just been executed (it sits in cell 2; cell 15 holds A as it was before
\* the first one)
AfterSecondOp(program) ==
    /\ loads = 1
    /\ Holds(program)
    /\ trace # <<>>
    /\ trace[1].pc = 2

\* C13: for every initial A in 0..15, ROL and then ROR returns A to its initial
\* value, and so does ROR and then ROL.
C13_RotateRoundTrip ==
    /\ AfterSecondOp(programRolRor) => regA = RAM[15]
    /\ AfterSecondOp(programRorRol) => regA = RAM[15]

\* ROL then ROR took 9 to 3 and back to 9
C13_Witness ==
    /\ AfterSecondOp(programRolRor)
    /\ trace[1].text = "ROR"
    /\ RAM[15] = 9
    /\ regA = 9

\* C19: for every initial A in 0..15, SHL and then SHR leaves A mod 8: A
\* returns to its initial value exactly when its bit 3 is clear.
C19_ShiftLosesBit ==
    AfterSecondOp(programShlShr) =>
        /\ regA = RAM[15] % 8
        /\ (regA = RAM[15]) <=> (RAM[15] \in 0 .. 7)
        /\ RAM[15] \in 8 .. 15 => regA # RAM[15]

\* SHL then SHR took 12 to 8 and then to 4
C19_Witness ==
    /\ AfterSecondOp(programShlShr)
    /\ trace[1].text = "SHR"
    /\ RAM[15] = 12
    /\ regA = 4

\* C14: loadProgram(bytes) sets memory[i] = bytes[i] for every i below
\* min(length, 16), keeps every other cell, drops the bytes at index 16 and
\* above, and leaves A..D, PC, the zero flag and running unchanged.
C14_LoadProgramFrame ==
    [][ \A program \in Programs :
          LoadProgram(program) =>
              /\ \A i \in Addr :
                    RAM'[i] = IF i < Len(program) /\ i < 16
                                THEN program[i + 1]
                                ELSE RAM[i]
              /\ DOMAIN RAM' = Addr
              /\ UNCHANGED <<regA, regB, regC, regD, PC, zeroFlag, running>> ]_vars

\* program1 was loaded, without a reset, on top of a program that had halted:
\* the earlier program's tail, registers, PC and halted state are still there
C14_Witness ==
    /\ call = "loadProgram"
    /\ loads = 2
    /\ Holds(program1)
    /\ RAM[Len(program1)] # 0
    /\ RAM[12] = Enc(HLT, 0)
    /\ PC = 13
    /\ regA = 6
    /\ ~running

\* C15: reset() applied in any reachable state, halted or running, yields
\* A = B = C = D = 0, PC = 0, zero flag false, running true and all 16 memory
\* cells 0.
C15_ResetYieldsInitial ==
    [][ Reset =>
          /\ regA' = 0 /\ regB' = 0 /\ regC' = 0 /\ regD' = 0
          /\ PC' = 0
          /\ zeroFlag' = FALSE
          /\ running' = TRUE
          /\ RAM' = [i \in Addr |-> 0] ]_vars

\* reset() was called after a run() of program1 that ended by HLT after 5 of
\* its 6 allowed steps: the machine is back in the initial state
C15_Witness ==
    /\ call = "reset"
    /\ steps = 5
    /\ maxSteps = 6
    /\ ~maxStepsReached
    /\ cpu = <<0, 0, 0, 0, 0, FALSE, [i \in Addr |-> 0], TRUE>>

\* C17: a step executing MOV with operand o copies the current value of
\* register (o div 4) into register (o mod 4) (0..3 = A..D) and leaves the zero
\* flag, the source register, the two other registers and memory unchanged;
\* when source and destination are the same register no register changes.
C17_MovFrame ==
    [][ (Executes /\ CurOpcode = MOV) =>
          LET src == CurOperand \div 4
              dst == CurOperand % 4
              before == <<regA, regB, regC, regD>>
              after == <<regA', regB', regC', regD'>>
          IN  /\ after[dst + 1] = before[src + 1]
              /\ \A i \in 0 .. 3 : i # dst => after[i + 1] = before[i + 1]
              /\ src = dst => after = before
              /\ zeroFlag' = zeroFlag
              /\ RAM' = RAM ]_vars

\* MOV with operand 7 copied B = 10 into D while the zero flag was set
C17_Witness ==
    /\ trace # <<>>
    /\ trace[1].text = "MOV"
    /\ trace[1].operand = 7
    /\ regA = 0 /\ regB = 10 /\ regC = 5 /\ regD = 10
    /\ zeroFlag

C20_MemoryWrites ==
    [][ /\ (call' = "step" /\ ~running) => RAM' = RAM
        /\ (Executes /\ CurOpcode \notin {STA, STB}) => RAM' = RAM
        /\ (Executes /\ CurOpcode = STA) =>
              /\ RAM' = [RAM EXCEPT ![CurOperand] = regA]
              /\ regA \in Nibble => RAM'[CurOperand] \div 16 = 0
        /\ (Executes /\ CurOpcode = STB) =>
              /\ RAM' = [RAM EXCEPT ![CurOperand] = regB]
              /\ regB \in Nibble => RAM'[CurOperand] \div 16 = 0
        /\ Executes =>
              LET mnemonics ==
                    << {"NOP"}, {"LDA"}, {"LDB"}, {"STA"}, {"STB"}, {"ADD"},
                       {"SUB"}, {"JMP"}, {"JZ (taken)", "JZ (not taken)"},
                       {"MOV"}, {"LDM"}, {"OUT"}, {"INC"}, {"DEC"},
                       {"AND", "OR", "XOR", "NOT", "SHL", "SHR", "ROL", "ROR",
                        "UNKNOWN ALU OP"},
                       {"HLT"} >>
              IN  /\ trace'[1].pc = PC
                  /\ trace'[1].instruction = RAM[PC]
                  /\ trace'[1].opcode = RAM[PC] \div 16
                  /\ trace'[1].operand = RAM[PC] % 16
                  /\ trace'[1].text \in mnemonics[(RAM[PC] \div 16) + 1]
                  /\ running' = (RAM[PC] \div 16 # HLT) ]_vars

\* programSelf has stored the byte 0xF0 over the NOP of cell 2, and the fetch
\* at cell 2 has executed it as HLT
C20_Witness ==
    /\ Holds(<<Enc(LDM, 4), Enc(STA, 2), Enc(HLT, 0), Enc(JMP, 0), Enc(HLT, 0)>>)
    /\ loads = 1
    /\ trace # <<>>
    /\ trace[1].pc = 2
    /\ trace[1].instruction = 240
    /\ trace[1].text = "HLT"
    /\ regA = 240
    /\ PC = 3
    /\ ~running

\* run() has just been called, with a budget that covers the 7 instructions
\* of program3, on a machine that was reset and then loaded with program3
Program3RunStarts ==
    /\ inRun
    /\ steps = 0
    /\ maxSteps >= Len(program3)
    /\ cpu = <<0, 0, 0, 0, 0, FALSE,
               [i \in Addr |-> IF i < Len(program3) THEN program3[i + 1] ELSE 0],
               TRUE>>

Program3RunEnds ==
    /\ RunDone
    /\ ~running
    /\ trace # <<>>
    /\ trace[1].text = "HLT"
    /\ trace[1].pc = 6
    /\ outputs = <<0, 10>>
    /\ RAM[15] = 10

\* C16: starting from the reset state with the program [0x1A, 0x3F, 0x10,
\* 0xB0, 0xAF, 0xB0, 0xF0] loaded, run halts by HLT, the sequence of values
\* emitted by OUT is exactly [0, 10], and memory[15] = 10 at the end.
C16_Program3 == Program3RunStarts ~> Program3RunEnds

\* The run of program3 from the reset state has ended after its 7 steps
C16_Witness ==
    /\ Program3RunEnds
    /\ loads = 1
    /\ steps = 7
    /\ regA = 10
    /\ PC = 7

====
